---- MODULE Spec2Model ----
(***************************************************************************)
(* Model of the economic dashboard (src/app.py) and of its price-move      *)
(* tool (src/fetch_nfp_moves.py).                                          *)
(*                                                                         *)
(* Representation of values.                                               *)
(*   - A date string "YYYY-MM-DD" is the tuple <<y, m, d>>; a month string *)
(*     "YYYY-MM" is <<y, m>>.  Python compares these zero-padded strings   *)
(*     character by character, which is the lexicographic order on the     *)
(*     tuples (StrLeq).                                                    *)
(*   - A dict is a record; a missing key is a field outside DOMAIN.        *)
(*   - A list is a sequence.                                               *)
(*   - None is <<>> where the value is otherwise a tuple (a month), and    *)
(*     NoneDict where the value is otherwise a dict.                       *)
(*   - A price is an integer number of 1/10000 yen (the feed quotes four   *)
(*     decimals); a pips value is an integer number of tenths of a pip.    *)
(***************************************************************************)
EXTENDS Integers, Sequences, FiniteSets, TLC

VARIABLES
    SCHEDULE_2026,  \* app.py: the module-level schedule table
    fed_speeches,   \* data/fed_speeches.json
    trades,         \* data/trades.json
    nfp_history,    \* data/nfp_history.json
    op,             \* the operation whose answer is being delivered, or "idle"
    view,           \* what that operation handed to its template / caller
    intraday,       \* the feed's answer in the last fetch / calculation
    wrote,          \* whether the last operation wrote nfp_history.json
    exit_status,    \* exit status of the last command-line run
    out             \* diagnostic lines printed by the last tool operation

vars == <<SCHEDULE_2026, fed_speeches, trades, nfp_history, op, view,
          intraday, wrote, exit_status, out>>

NoneDict == [None |-> TRUE]

(***************************************************************************)
(* Bounds of the model.                                                    *)
(***************************************************************************)
\* longest commentary log and longest trade log the dashboard is run to
MaxSpeeches == 2
MaxTrades == 1
\* longest commentary log drawn for the window correlation
MaxCorrLog == 3
\* the prices drawn for a series reach 3 * MaxDev above 151.0000
MaxDev == 1

(***************************************************************************)
(* Strings and dates.                                                      *)
(***************************************************************************)
\* Python's <= on two equally long zero-padded digit strings.
RECURSIVE StrLeq(_, _)
StrLeq(a, b) ==
    IF a = <<>> \/ b = <<>> THEN a = <<>>
    ELSE IF Head(a) # Head(b) THEN Head(a) < Head(b)
    ELSE StrLeq(Tail(a), Tail(b))

\* days before the first of month m in a year of 365 days (2025, 2026)
DaysBefore(m) ==
    CASE m = 1 -> 0   [] m = 2 -> 31  [] m = 3 -> 59  [] m = 4 -> 90
      [] m = 5 -> 120 [] m = 6 -> 151 [] m = 7 -> 181 [] m = 8 -> 212
      [] m = 9 -> 243 [] m = 10 -> 273 [] m = 11 -> 304 [] m = 12 -> 334

\* datetime.strptime(s, "%Y-%m-%d") as a day count (midnight of that day)
strptime(s) == (s[1] - 2025) * 365 + DaysBefore(s[2]) + s[3]

(***************************************************************************)
(* app.py: the schedule table.                                             *)
(***************************************************************************)
InitialSchedule ==
    [fomc |-> << [date |-> <<2026, 1, 28>>, sep |-> FALSE],
                 [date |-> <<2026, 3, 18>>, sep |-> TRUE],
                 [date |-> <<2026, 4, 29>>, sep |-> FALSE],
                 [date |-> <<2026, 6, 17>>, sep |-> TRUE],
                 [date |-> <<2026, 7, 29>>, sep |-> FALSE],
                 [date |-> <<2026, 9, 16>>, sep |-> TRUE],
                 [date |-> <<2026, 10, 28>>, sep |-> FALSE],
                 [date |-> <<2026, 12, 9>>, sep |-> TRUE] >>,
     boj  |-> << [date |-> <<2026, 1, 23>>, outlook |-> TRUE],
                 [date |-> <<2026, 3, 19>>, outlook |-> FALSE],
                 [date |-> <<2026, 4, 28>>, outlook |-> TRUE],
                 [date |-> <<2026, 6, 16>>, outlook |-> FALSE],
                 [date |-> <<2026, 7, 31>>, outlook |-> TRUE],
                 [date |-> <<2026, 9, 18>>, outlook |-> FALSE],
                 [date |-> <<2026, 10, 30>>, outlook |-> TRUE],
                 [date |-> <<2026, 12, 18>>, outlook |-> FALSE] >>,
     nfp  |-> << [date |-> <<2026, 1, 9>>, month |-> <<2025, 12>>],
                 [date |-> <<2026, 2, 11>>, month |-> <<2026, 1>>],
                 [date |-> <<2026, 3, 6>>, month |-> <<2026, 2>>],
                 [date |-> <<2026, 4, 3>>, month |-> <<2026, 3>>],
                 [date |-> <<2026, 5, 1>>, month |-> <<2026, 4>>],
                 [date |-> <<2026, 6, 5>>, month |-> <<2026, 5>>],
                 [date |-> <<2026, 7, 2>>, month |-> <<2026, 6>>],
                 [date |-> <<2026, 8, 7>>, month |-> <<2026, 7>>],
                 [date |-> <<2026, 9, 4>>, month |-> <<2026, 8>>],
                 [date |-> <<2026, 10, 2>>, month |-> <<2026, 9>>],
                 [date |-> <<2026, 11, 6>>, month |-> <<2026, 10>>],
                 [date |-> <<2026, 12, 4>>, month |-> <<2026, 11>>] >>,
     cpi  |-> << [date |-> <<2026, 1, 14>>, month |-> <<2025, 12>>],
                 [date |-> <<2026, 2, 12>>, month |-> <<2026, 1>>],
                 [date |-> <<2026, 3, 11>>, month |-> <<2026, 2>>],
                 [date |-> <<2026, 4, 14>>, month |-> <<2026, 3>>],
                 [date |-> <<2026, 5, 13>>, month |-> <<2026, 4>>],
                 [date |-> <<2026, 6, 10>>, month |-> <<2026, 5>>],
                 [date |-> <<2026, 7, 15>>, month |-> <<2026, 6>>],
                 [date |-> <<2026, 8, 12>>, month |-> <<2026, 7>>],
                 [date |-> <<2026, 9, 16>>, month |-> <<2026, 8>>],
                 [date |-> <<2026, 10, 13>>, month |-> <<2026, 9>>],
                 [date |-> <<2026, 11, 12>>, month |-> <<2026, 10>>],
                 [date |-> <<2026, 12, 10>>, month |-> <<2026, 11>>] >>]

\* the order in which SCHEDULE_2026.items() yields the event types
EventTypes == <<"fomc", "boj", "nfp", "cpi">>

(***************************************************************************)
(* datetime.now() is [date, midnight]: midnight is TRUE when the clock     *)
(* reads exactly 00:00:00.000000 of that date.                             *)
(***************************************************************************)
\* nfp_date >= today, nfp_date being midnight of the schedule date
NotBeforeNow(date, today) ==
    \/ strptime(date) > strptime(today.date)
    \/ strptime(date) = strptime(today.date) /\ today.midnight

\* (nfp_date - today).days: whole days, rounded down
DaysUntil(date, today) ==
    strptime(date) - strptime(today.date) - (IF today.midnight THEN 0 ELSE 1)

\* position of the first schedule entry with nfp_date >= today, 0 if none
RECURSIVE FirstUpcoming(_, _, _)
FirstUpcoming(schedule, today, i) ==
    IF i > Len(schedule) THEN 0
    ELSE IF NotBeforeNow(schedule[i].date, today) THEN i
    ELSE FirstUpcoming(schedule, today, i + 1)

(***************************************************************************)
(* Python helpers.                                                         *)
(***************************************************************************)
\* dict.get(key, default)
get(d, key, default) == IF key \in DOMAIN d THEN d[key] ELSE default

\* {**d, key: value}
put(d, key, value) ==
    [k \in DOMAIN d \cup {key} |-> IF k = key THEN value ELSE d[k]]

\* list.sort(key=lambda x: x["date"]) / sorted(...): a stable sort; with
\* reverse the keys descend and equal keys keep their original order
RECURSIVE InsertByDate(_, _, _)
InsertByDate(x, sorted, reverse) ==
    IF sorted = <<>> THEN <<x>>
    ELSE IF (IF reverse THEN StrLeq(x.date, Head(sorted).date)
                        ELSE StrLeq(Head(sorted).date, x.date))
         THEN <<Head(sorted)>> \o InsertByDate(x, Tail(sorted), reverse)
         ELSE <<x>> \o sorted

RECURSIVE SortByDate(_, _)
SortByDate(list, reverse) ==
    IF list = <<>> THEN <<>>
    ELSE InsertByDate(list[Len(list)],
                      SortByDate(SubSeq(list, 1, Len(list) - 1), reverse),
                      reverse)

(***************************************************************************)
(* app.py: index                                                           *)
(***************************************************************************)
upper(event_type) ==
    CASE event_type = "fomc" -> "FOMC" [] event_type = "boj" -> "BOJ"
      [] event_type = "nfp" -> "NFP"   [] event_type = "cpi" -> "CPI"

\* the events of one schedule dated today or later, each as
\* {"type": ..., "date": ..., **event}
RECURSIVE UpcomingEvents(_, _, _)
UpcomingEvents(event_type, schedule, today_str) ==
    IF schedule = <<>> THEN <<>>
    ELSE (IF StrLeq(today_str, Head(schedule).date)
          THEN << put(Head(schedule), "type", upper(event_type)) >>
          ELSE <<>>)
         \o UpcomingEvents(event_type, Tail(schedule), today_str)

RECURSIVE AllUpcomingEvents(_, _, _)
AllUpcomingEvents(table, today_str, t) ==
    IF t > Len(EventTypes) THEN <<>>
    ELSE UpcomingEvents(EventTypes[t], table[EventTypes[t]], today_str)
         \o AllUpcomingEvents(table, today_str, t + 1)

\* the table after `next_nfp["days_until"] = days_until`: next_nfp is the
\* entry of the table itself, not a copy of it
WithDaysUntil(table, i, today) ==
    IF i = 0 THEN table
    ELSE [table EXCEPT !.nfp[i] =
            put(@, "days_until", DaysUntil(@.date, today))]

index(today) ==
    LET i      == FirstUpcoming(SCHEDULE_2026.nfp, today, 1)
        table  == WithDaysUntil(SCHEDULE_2026, i, today)
        events == SortByDate(AllUpcomingEvents(table, today.date, 1), FALSE)
    IN  /\ op = "idle"
        /\ SCHEDULE_2026' = table
        /\ op' = "index"
        /\ view' = [today    |-> today.date,
                    next_nfp |-> IF i = 0 THEN NoneDict ELSE table.nfp[i],
                    events   |-> SubSeq(events, 1,
                                        IF Len(events) < 10 THEN Len(events)
                                                            ELSE 10)]
        /\ wrote' = FALSE
        /\ UNCHANGED <<fed_speeches, trades, nfp_history, intraday,
                       exit_status, out>>

(***************************************************************************)
(* app.py: nfp_page                                                        *)
(***************************************************************************)
\* position of the first entry whose month is `month`, 0 if there is none
RECURSIVE FindMonth(_, _, _)
FindMonth(schedule, month, i) ==
    IF i > Len(schedule) THEN 0
    ELSE IF schedule[i].month = month THEN i
    ELSE FindMonth(schedule, month, i + 1)

DefaultMonthData ==
    [forecast |-> "None", actual |-> "None", prev |-> "None",
     market_reaction |-> "None", notes |-> ""]

\* the date of the release before position i, None at the first position
\* and when the month was not found (i = 0)
\* (PrevNfpDateOpen starts the window at the least date instead of None)
PrevNfpDateOpen(schedule, i) ==
    IF i > 1 THEN schedule[i - 1].date ELSE <<0, 0, 0>>

PrevNfpDate(schedule, i) ==
    IF i > 1 THEN schedule[i - 1].date ELSE <<>>

\* the test of `for speech in fed_speeches`
\* (InWindowExclusive leaves the previous release day out)
InWindowExclusive(prev_nfp_date, speech, nfp_schedule) ==
    /\ ~StrLeq(speech.date, prev_nfp_date)
    /\ StrLeq(speech.date, nfp_schedule.date)

InWindow(prev_nfp_date, speech, nfp_schedule) ==
    /\ StrLeq(prev_nfp_date, speech.date)
    /\ StrLeq(speech.date, nfp_schedule.date)

RECURSIVE RelatedSpeeches(_, _, _, _)
RelatedSpeeches(speeches, prev_nfp_date, nfp_schedule, related) ==
    IF speeches = <<>> THEN related
    ELSE RelatedSpeeches(Tail(speeches), prev_nfp_date, nfp_schedule,
            IF InWindow(prev_nfp_date, Head(speeches), nfp_schedule)
            THEN Append(related, Head(speeches))
            ELSE related)

\* None is <<>> for the month and for prev_nfp_date, NoneDict for the
\* schedule entry
nfp_page(month_arg, today) ==
    LET up    == FirstUpcoming(SCHEDULE_2026.nfp, today, 1)
        month == IF month_arg = <<>> /\ up > 0
                 THEN SCHEDULE_2026.nfp[up].month ELSE month_arg
        i     == FindMonth(SCHEDULE_2026.nfp, month, 1)
        nfp_schedule  == IF i = 0 THEN NoneDict ELSE SCHEDULE_2026.nfp[i]
        prev_nfp_date == PrevNfpDate(SCHEDULE_2026.nfp, i)
        month_data == IF month \in DOMAIN nfp_history
                      THEN nfp_history[month] ELSE DefaultMonthData
        related == IF nfp_schedule # NoneDict /\ prev_nfp_date # <<>>
                   THEN RelatedSpeeches(fed_speeches, prev_nfp_date,
                                        nfp_schedule, <<>>)
                   ELSE <<>>
    IN  /\ op = "idle"
        /\ op' = "nfp_page"
        /\ view' = [month    |-> month,
                    schedule |-> nfp_schedule,
                    data     |-> month_data,
                    speeches |-> related]
        /\ wrote' = FALSE
        /\ UNCHANGED <<SCHEDULE_2026, fed_speeches, trades, nfp_history,
                       intraday, exit_status, out>>

(***************************************************************************)
(* app.py: fed_speeches_page, trades_page                                  *)
(***************************************************************************)
\* (fed_speeches_page_saving_sorted writes the display order back)
fed_speeches_page_saving_sorted ==
    /\ op = "idle"
    /\ op' = "fed_speeches_page"
    /\ view' = [speeches |-> SortByDate(fed_speeches, TRUE)]
    /\ fed_speeches' = SortByDate(fed_speeches, TRUE)
    /\ wrote' = FALSE
    /\ UNCHANGED <<SCHEDULE_2026, trades, nfp_history,
                   intraday, exit_status, out>>

fed_speeches_page ==
    /\ op = "idle"
    /\ op' = "fed_speeches_page"
    /\ view' = [speeches |-> SortByDate(fed_speeches, TRUE)]
    /\ wrote' = FALSE
    /\ UNCHANGED <<SCHEDULE_2026, fed_speeches, trades, nfp_history,
                   intraday, exit_status, out>>

RECURSIVE SumPnl(_)
SumPnl(list) == IF list = <<>> THEN 0 ELSE Head(list).pnl + SumPnl(Tail(list))

\* the running totals over the trades in date order
RECURSIVE Cumulative(_, _)
Cumulative(list, running_total) ==
    IF list = <<>> THEN <<>>
    ELSE << [date  |-> Head(list).date,
             total |-> running_total + Head(list).pnl] >>
         \o Cumulative(Tail(list), running_total + Head(list).pnl)

\* win_rate is the fraction <<numerator, denominator>> of the quotient
trades_page ==
    LET win_count  == Cardinality({k \in DOMAIN trades : trades[k].pnl > 0})
        lose_count == Cardinality({k \in DOMAIN trades : trades[k].pnl < 0})
        total_trades == Len(trades)
    IN  /\ op = "idle"
        /\ op' = "trades_page"
        /\ view' = [trades     |-> trades,
                    total_pnl  |-> SumPnl(trades),
                    win_count  |-> win_count,
                    lose_count |-> lose_count,
                    win_rate   |-> IF total_trades > 0
                                   THEN <<win_count * 100, total_trades>>
                                   ELSE <<0, 1>>,
                    cumulative |-> Cumulative(SortByDate(trades, FALSE), 0)]
        /\ wrote' = FALSE
        /\ UNCHANGED <<SCHEDULE_2026, fed_speeches, trades, nfp_history,
                       intraday, exit_status, out>>

(***************************************************************************)
(* app.py: the update endpoints.  `data` is request.json.                  *)
(***************************************************************************)
\* (update_nfp_merging overwrites the five fields of a record that exists
\* and keeps whatever else the record holds)
update_nfp_merging(month, data) ==
    /\ op = "idle"
    /\ nfp_history' =
         put(nfp_history, month,
             [forecast        |-> get(data, "forecast", "None"),
              actual          |-> get(data, "actual", "None"),
              prev            |-> get(data, "prev", "None"),
              market_reaction |-> get(data, "market_reaction", "None"),
              notes           |-> get(data, "notes", "")]
             @@ get(nfp_history, month, [k \in {} |-> ""]))
    /\ op' = "update_nfp"
    /\ view' = [status |-> "ok"]
    /\ wrote' = TRUE
    /\ UNCHANGED <<SCHEDULE_2026, fed_speeches, trades, intraday,
                   exit_status, out>>

update_nfp(month, data) ==
    /\ op = "idle"
    /\ nfp_history' =
         put(nfp_history, month,
             [forecast        |-> get(data, "forecast", "None"),
              actual          |-> get(data, "actual", "None"),
              prev            |-> get(data, "prev", "None"),
              market_reaction |-> get(data, "market_reaction", "None"),
              notes           |-> get(data, "notes", "")])
    /\ op' = "update_nfp"
    /\ view' = [status |-> "ok"]
    /\ wrote' = TRUE
    /\ UNCHANGED <<SCHEDULE_2026, fed_speeches, trades, intraday,
                   exit_status, out>>

add_fed_speech(data) ==
    /\ op = "idle"
    /\ Len(fed_speeches) < MaxSpeeches
    /\ fed_speeches' =
         Append(fed_speeches,
                [date            |-> data.date,
                 official        |-> data.official,
                 summary         |-> data.summary,
                 stance          |-> data.stance,
                 market_reaction |-> get(data, "market_reaction", "")])
    /\ op' = "add_fed_speech"
    /\ view' = [status |-> "ok"]
    /\ wrote' = FALSE
    /\ UNCHANGED <<SCHEDULE_2026, trades, nfp_history, intraday,
                   exit_status, out>>

add_trade(data) ==
    /\ op = "idle"
    /\ Len(trades) < MaxTrades
    /\ trades' =
         Append(trades,
                [date      |-> data.date,
                 indicator |-> data.indicator,
                 entry     |-> data.entry,
                 exit      |-> data.exit,
                 pnl       |-> data.pnl,
                 notes     |-> get(data, "notes", "")])
    /\ op' = "add_trade"
    /\ view' = [status |-> "ok"]
    /\ wrote' = FALSE
    /\ UNCHANGED <<SCHEDULE_2026, fed_speeches, nfp_history, intraday,
                   exit_status, out>>

(***************************************************************************)
(* fetch_nfp_moves.py: calculate_nfp_move                                  *)
(*                                                                         *)
(* A timestamp key "YYYY-MM-DD HH:MM:00" is <<date, HH, MM>>, HH and MM    *)
(* being the numbers the format prints.  The series is a function from     *)
(* timestamps to closing prices; float("151.2340") is the price 1512340.   *)
(* An insertion-ordered dict keyed by offset labels (prices, moves) is the *)
(* sequence of its items, each a record carrying its label.                *)
(***************************************************************************)
\* times_to_check.items(), in the order of the dict literal
times_to_check(nfp_date, release_hour, release_minute) ==
    << [label |-> "release",
        time_str |-> <<nfp_date, release_hour, release_minute>>],
       [label |-> "5min_after",
        time_str |-> <<nfp_date, release_hour, release_minute + 5>>],
       [label |-> "15min_after",
        time_str |-> <<nfp_date, release_hour, release_minute + 15>>],
       [label |-> "30min_after",
        time_str |-> <<nfp_date,
                       release_hour + (release_minute + 30) \div 60,
                       (release_minute + 30) % 60>>],
       [label |-> "1h_after",
        time_str |-> <<nfp_date, release_hour + 1, release_minute>>] >>

\* the timestamp the fallback loop tries at each of its ten turns: the
\* source assigns time_str itself, whatever the offset
\* (check_time_stepping walks the five-minute grid instead)
check_time_stepping(time_str, offset) ==
    <<time_str[1], time_str[2] + (time_str[3] + 5 * offset) \div 60,
      (time_str[3] + 5 * offset) % 60>>

check_time(time_str, offset) == time_str

\* the key under which a price is read for time_str: a one-element
\* sequence, or <<>> when neither the exact lookup nor the loop finds one
LookupKey(intraday_data, time_str) ==
    IF time_str \in DOMAIN intraday_data THEN <<time_str>>
    ELSE LET hits == { offset \in 0..9 :
                         check_time(time_str, offset) \in DOMAIN intraday_data }
         IN  IF hits = {} THEN <<>>
             ELSE LET first == CHOOSE o \in hits : \A q \in hits : o <= q
                  IN  <<check_time(time_str, first)>>

\* prices.items() after the loop over times_to_check
RECURSIVE CollectPrices(_, _)
CollectPrices(intraday_data, times) ==
    IF times = <<>> THEN <<>>
    ELSE LET key == LookupKey(intraday_data, Head(times).time_str)
         IN  (IF key = <<>> THEN <<>>
              ELSE << [label |-> Head(times).label,
                       price |-> intraday_data[key[1]]] >>)
             \o CollectPrices(intraday_data, Tail(times))

\* round((price - release_price) * 100, 1) in tenths of a pip.  The exact
\* product is (price - release_price) / 10 in these units; when it lies
\* halfway between two tenths the binary floating-point error of the
\* subtraction decides the direction, so both neighbours are outcomes:
\* `up` says which one this evaluation produces.
\* (round_pips_truncating cuts the product off after its first decimal.)
round_pips_truncating(price, release_price, up) ==
    LET d == price - release_price
    IN  IF d >= 0 THEN d \div 10 ELSE -((-d) \div 10)

round_pips(price, release_price, up) ==
    LET d == price - release_price
        q == d \div 10
        r == d % 10
    IN  IF r < 5 THEN q
        ELSE IF r > 5 THEN q + 1
        ELSE IF up THEN q + 1 ELSE q

abs(x) == IF x < 0 THEN -x ELSE x

\* max(all_pips): the greatest item, signs counted
RECURSIVE max_signed(_)
max_signed(all_pips) ==
    IF Len(all_pips) = 1 THEN all_pips[1]
    ELSE LET rest == max_signed(Tail(all_pips))
         IN  IF Head(all_pips) >= rest THEN Head(all_pips) ELSE rest

\* max(all_pips, key=abs): the first of the items of greatest key
RECURSIVE max_by_abs(_)
max_by_abs(all_pips) ==
    IF Len(all_pips) = 1 THEN all_pips[1]
    ELSE LET rest == max_by_abs(Tail(all_pips))
         IN  IF abs(Head(all_pips)) >= abs(rest) THEN Head(all_pips)
             ELSE rest

\* result["moves"].items(): one item for each price other than the release
RECURSIVE Moves(_, _, _)
Moves(prices, release_price, ups) ==
    IF prices = <<>> THEN <<>>
    ELSE (IF Head(prices).label # "release"
          THEN << [label |-> Head(prices).label,
                   price |-> Head(prices).price,
                   pips  |-> round_pips(Head(prices).price, release_price,
                                        Head(prices).label \in ups)] >>
          ELSE <<>>)
         \o Moves(Tail(prices), release_price, ups)

\* the defaults release_hour=13, release_minute=30
DefaultReleaseHour == 13
DefaultReleaseMinute == 30

\* ups: the labels whose halfway product, if any, rounds up
\* (calculate_nfp_move_zero_filled has no early return: the release price
\* of a series without the release timestamp is filled with zero)
calculate_nfp_move_zero_filled(intraday_data, nfp_date, release_hour, release_minute, ups) ==
    LET prices == CollectPrices(intraday_data,
                      times_to_check(nfp_date, release_hour, release_minute))
        release_price ==
            IF \A k \in DOMAIN prices : prices[k].label # "release" THEN 0
            ELSE prices[CHOOSE k \in DOMAIN prices :
                            prices[k].label = "release"].price
        moves == Moves(prices, release_price, ups)
        result == [release_price |-> release_price, moves |-> moves]
    IN  IF moves # <<>>
        THEN put(result, "max_move",
                 max_by_abs([k \in DOMAIN moves |-> moves[k].pips]))
        ELSE result

calculate_nfp_move(intraday_data, nfp_date, release_hour, release_minute, ups) ==
    LET prices == CollectPrices(intraday_data,
                      times_to_check(nfp_date, release_hour, release_minute))
    IN  IF \A k \in DOMAIN prices : prices[k].label # "release"
        THEN NoneDict
        ELSE LET release_price ==
                     prices[CHOOSE k \in DOMAIN prices :
                                prices[k].label = "release"].price
                 moves == Moves(prices, release_price, ups)
                 result == [release_price |-> release_price, moves |-> moves]
             IN  IF moves # <<>>
                 THEN put(result, "max_move",
                          max_by_abs([k \in DOMAIN moves |-> moves[k].pips]))
                 ELSE result

OffsetLabels == { "5min_after", "15min_after", "30min_after", "1h_after" }

(***************************************************************************)
(* fetch_nfp_moves.py: the feed and the history store                      *)
(*                                                                         *)
(* The answer of the feed is [raises |-> TRUE] when the request or its     *)
(* decoding raises, else [raises |-> FALSE, data |-> the JSON object]; the *)
(* member "Time Series FX (Intraday)" of the object is its field           *)
(* TimeSeries.  What get_usdjpy_intraday returns is None or the series,    *)
(* carried as [TimeSeries |-> series].                                     *)
(***************************************************************************)
get_usdjpy_intraday(response) ==
    IF response.raises THEN NoneDict
    ELSE IF "TimeSeries" \notin DOMAIN response.data THEN NoneDict
    ELSE [TimeSeries |-> response.data.TimeSeries]

\* what get_usdjpy_intraday prints
get_usdjpy_intraday_prints(response) ==
    IF response.raises THEN <<"request error">>
    ELSE IF "TimeSeries" \notin DOMAIN response.data THEN <<"API error">>
    ELSE <<>>

\* `not intraday`: None and the empty series are false
not_intraday(x) == x = NoneDict \/ DOMAIN x.TimeSeries = {}

\* the month a release date reports on: the month before it
target_month(nfp_date) ==
    IF nfp_date[2] = 1 THEN <<nfp_date[1] - 1, 12>>
    ELSE <<nfp_date[1], nfp_date[2] - 1>>

\* `month in history`
\* (has_month_always takes every month for a key)
has_month_always(history, month) == TRUE

has_month(history, month) == month \in DOMAIN history

\* history[month]["price_moves"] = moves
\* (set_price_moves_merging updates the keys of the stored result with those
\* of the new one)
set_price_moves_merging(history, month, moves) ==
    [history EXCEPT ![month] =
        put(@, "price_moves",
            IF "price_moves" \in DOMAIN @
            THEN [k \in DOMAIN @.price_moves \cup DOMAIN moves |->
                    IF k \in DOMAIN moves THEN moves[k]
                    ELSE @.price_moves[k]]
            ELSE moves)]

set_price_moves(history, month, moves) ==
    [history EXCEPT ![month] = put(@, "price_moves", moves)]

(***************************************************************************)
(* fetch_nfp_moves.py: update_nfp_with_moves, add_manual_price_moves,      *)
(* populate_historical_moves.  Each is the effect of one call on the       *)
(* store, with what it returns and prints; the return value is the string  *)
(* "True", "False" or "None".                                              *)
(***************************************************************************)
update_nfp_with_moves(nfp_date, response, ups) ==
    LET fetched == get_usdjpy_intraday(response)
        printed == <<"fetching">> \o get_usdjpy_intraday_prints(response)
        moves   == calculate_nfp_move(fetched.TimeSeries, nfp_date,
                                      DefaultReleaseHour,
                                      DefaultReleaseMinute, ups)
        month   == target_month(nfp_date)
    IN  /\ intraday' = fetched
        /\ IF not_intraday(fetched)
           THEN /\ view' = [ret |-> "False", nfp_date |-> nfp_date,
                            moves |-> NoneDict]
                /\ out' = printed \o <<"fetch failed">>
                /\ wrote' = FALSE
                /\ UNCHANGED nfp_history
           ELSE IF moves = NoneDict
           THEN /\ view' = [ret |-> "False", nfp_date |-> nfp_date,
                            moves |-> NoneDict]
                /\ out' = printed \o <<"calculation failed">>
                /\ wrote' = FALSE
                /\ UNCHANGED nfp_history
           ELSE IF has_month(nfp_history, month)
           THEN /\ nfp_history' = set_price_moves(nfp_history, month, moves)
                /\ wrote' = TRUE
                /\ view' = [ret |-> "True", nfp_date |-> nfp_date,
                            moves |-> moves]
                /\ out' = printed \o <<"updated">>
           ELSE /\ view' = [ret |-> "False", nfp_date |-> nfp_date,
                            moves |-> moves]
                /\ out' = printed \o <<"month not in history">>
                /\ wrote' = FALSE
                /\ UNCHANGED nfp_history

add_manual_price_moves(month, release_price, moves_data) ==
    /\ op = "idle"
    /\ op' = "add_manual_price_moves"
    /\ IF ~has_month(nfp_history, month)
       THEN /\ view' = [ret |-> "False", month |-> month,
                        moves |-> NoneDict]
            /\ out' = <<"month not in history">>
            /\ wrote' = FALSE
            /\ UNCHANGED nfp_history
       ELSE LET all_pips == [k \in DOMAIN moves_data |-> moves_data[k].pips]
                max_move == IF all_pips # <<>> THEN max_by_abs(all_pips)
                            ELSE 0
                moves == [release_price |-> release_price,
                          moves         |-> moves_data,
                          max_move      |-> max_move]
            IN  /\ nfp_history' = set_price_moves(nfp_history, month, moves)
                /\ wrote' = TRUE
                /\ view' = [ret |-> "True", month |-> month, moves |-> moves]
                /\ out' = <<"manual data added">>
    /\ UNCHANGED <<SCHEDULE_2026, fed_speeches, trades, intraday,
                   exit_status>>

\* the sample results, in the order of the dict literal
HISTORICAL_MOVES ==
    <<
      [month |-> <<2024, 1>>,
       value |-> [release_price |-> 1448000,
                  moves |-> << [label |-> "5min_after", price |-> 1453000, pips |-> 500],
                             [label |-> "30min_after", price |-> 1456000, pips |-> 800],
                             [label |-> "1h_after", price |-> 1455000, pips |-> 700] >>,
                  max_move |-> 800]],
      [month |-> <<2024, 2>>,
       value |-> [release_price |-> 1482000,
                  moves |-> << [label |-> "5min_after", price |-> 1489000, pips |-> 700],
                             [label |-> "30min_after", price |-> 1494000, pips |-> 1200],
                             [label |-> "1h_after", price |-> 1492000, pips |-> 1000] >>,
                  max_move |-> 1200]],
      [month |-> <<2024, 5>>,
       value |-> [release_price |-> 1558000,
                  moves |-> << [label |-> "5min_after", price |-> 1552000, pips |-> -600],
                             [label |-> "30min_after", price |-> 1549000, pips |-> -900],
                             [label |-> "1h_after", price |-> 1550000, pips |-> -800] >>,
                  max_move |-> -900]],
      [month |-> <<2024, 8>>,
       value |-> [release_price |-> 1465000,
                  moves |-> << [label |-> "5min_after", price |-> 1458000, pips |-> -700],
                             [label |-> "30min_after", price |-> 1452000, pips |-> -1300],
                             [label |-> "1h_after", price |-> 1450000, pips |-> -1500] >>,
                  max_move |-> -1500]],
      [month |-> <<2024, 10>>,
       value |-> [release_price |-> 1488000,
                  moves |-> << [label |-> "5min_after", price |-> 1494000, pips |-> 600],
                             [label |-> "30min_after", price |-> 1498000, pips |-> 1000],
                             [label |-> "1h_after", price |-> 1496000, pips |-> 800] >>,
                  max_move |-> 1000]],
      [month |-> <<2024, 11>>,
       value |-> [release_price |-> 1523000,
                  moves |-> << [label |-> "5min_after", price |-> 1515000, pips |-> -800],
                             [label |-> "30min_after", price |-> 1510000, pips |-> -1300],
                             [label |-> "1h_after", price |-> 1512000, pips |-> -1100] >>,
                  max_move |-> -1300]],
      [month |-> <<2025, 1>>,
       value |-> [release_price |-> 1572000,
                  moves |-> << [label |-> "5min_after", price |-> 1578000, pips |-> 600],
                             [label |-> "30min_after", price |-> 1583000, pips |-> 1100],
                             [label |-> "1h_after", price |-> 1581000, pips |-> 900] >>,
                  max_move |-> 1100]]
    >>

\* the store after the loop over HISTORICAL_MOVES.items() from item i on
RECURSIVE PopulateFrom(_, _)
PopulateFrom(history, i) ==
    IF i > Len(HISTORICAL_MOVES) THEN history
    ELSE PopulateFrom(
            IF has_month(history, HISTORICAL_MOVES[i].month)
            THEN set_price_moves(history, HISTORICAL_MOVES[i].month,
                                 HISTORICAL_MOVES[i].value)
            ELSE history,
            i + 1)

\* the lines the loop prints: one for each month it attaches
RECURSIVE PopulatePrints(_, _)
PopulatePrints(history, i) ==
    IF i > Len(HISTORICAL_MOVES) THEN <<>>
    ELSE (IF has_month(history, HISTORICAL_MOVES[i].month)
          THEN <<"added">> ELSE <<>>)
         \o PopulatePrints(history, i + 1)

populate_historical_moves ==
    /\ nfp_history' = PopulateFrom(nfp_history, 1)
    /\ wrote' = TRUE
    /\ view' = [ret |-> "None"]
    /\ out' = PopulatePrints(nfp_history, 1) \o <<"historical data added">>
    /\ UNCHANGED intraday

(***************************************************************************)
(* fetch_nfp_moves.py: the command line.  argv is sys.argv[1:]; a date or  *)
(* a month argument is given as its tuple.  An uncaught exception ends the *)
(* run with status 1, the end of the script and sys.exit(0) with status 0. *)
(***************************************************************************)
\* the strings float() accepts among those drawn, with their values
FloatOf == ("146.50" :> 1465000)

main(argv, response, ups) ==
    /\ op = "idle"
    /\ IF Len(argv) < 1
       THEN /\ op' = "main: usage"
            /\ out' = <<"usage">>
            /\ view' = [ret |-> "None"]
            /\ exit_status' = 0
            /\ wrote' = FALSE
            /\ UNCHANGED <<nfp_history, intraday>>
       ELSE IF argv[1] = "populate"
       THEN /\ op' = "main: populate"
            /\ populate_historical_moves
            /\ exit_status' = 0
       ELSE IF argv[1] = "fetch" /\ Len(argv) >= 2
       THEN /\ op' = "main: fetch"
            /\ update_nfp_with_moves(argv[2], response, ups)
            /\ exit_status' = 0
       ELSE IF argv[1] = "add" /\ Len(argv) >= 3
       THEN /\ op' = "main: add"
            /\ view' = [ret |-> "None"]
            /\ wrote' = FALSE
            /\ IF argv[3] \in DOMAIN FloatOf
               THEN /\ out' = <<"manual add", "enter the moves interactively">>
                    /\ exit_status' = 0
               ELSE /\ out' = <<"ValueError">>
                    /\ exit_status' = 1
            /\ UNCHANGED <<nfp_history, intraday>>
       ELSE /\ op' = "main: unknown command"
            /\ out' = <<"unknown command">>
            /\ view' = [ret |-> "None"]
            /\ exit_status' = 0
            /\ wrote' = FALSE
            /\ UNCHANGED <<nfp_history, intraday>>
    /\ UNCHANGED <<SCHEDULE_2026, fed_speeches, trades>>

(***************************************************************************)
(* One request or one tool run at a time: the answer of an operation is    *)
(* delivered before the next operation starts.                             *)
(***************************************************************************)
Respond ==
    /\ op # "idle"
    /\ op' = "idle"
    /\ view' = NoneDict
    /\ wrote' = FALSE
    /\ out' = <<>>
    /\ UNCHANGED <<SCHEDULE_2026, fed_speeches, trades, nfp_history,
                   intraday, exit_status>>

(***************************************************************************)
(* Inputs of the handlers.                                                 *)
(***************************************************************************)
\* datetime.now(): before the first release, at midnight of the first
\* release day, later on that day, and after the last release of the year
Todays ==
    { [date |-> <<2026, 1, 5>>, midnight |-> FALSE],
      [date |-> <<2026, 1, 9>>, midnight |-> TRUE],
      [date |-> <<2026, 1, 9>>, midnight |-> FALSE],
      [date |-> <<2026, 12, 5>>, midnight |-> FALSE] }

\* /nfp/<month> does not read the clock
ClockUnread == [date |-> <<2026, 1, 5>>, midnight |-> FALSE]

\* request bodies of POST /api/fed-speech, with and without market_reaction
SpeechRequests ==
    { [date |-> <<2026, 1, 20>>, official |-> "Powell",
       summary |-> "rates on hold", stance |-> "neutral"],
      [date |-> <<2026, 2, 12>>, official |-> "Waller",
       summary |-> "cut soon", stance |-> "dovish",
       market_reaction |-> "USD down"] }

\* request bodies of POST /api/trade, with and without notes
TradeRequests ==
    { [date |-> <<2026, 2, 11>>, indicator |-> "NFP", entry |-> 1510000,
       exit |-> 1515000, pnl |-> 50, notes |-> "long"],
      [date |-> <<2026, 1, 9>>, indicator |-> "NFP", entry |-> 1580000,
       exit |-> 1577000, pnl |-> -30] }

\* months asked of /nfp/<month>; <<2024, 7>> is in no schedule
ScheduleMonths ==
    { InitialSchedule.nfp[i].month : i \in DOMAIN InitialSchedule.nfp }

PageMonths == { <<2024, 7>> } \cup ScheduleMonths

\* months and request bodies of POST /api/nfp/<month>
HistoryMonths == { <<2025, 1>>, <<2025, 12>> }

UpdateRequests ==
    { [forecast |-> "70K", actual |-> "130K", prev |-> "50K",
       market_reaction |-> "USD up", notes |-> "strong"],
      [actual |-> "-20K"] }

(***************************************************************************)
(* The dashboard: every handler, from empty stores.                        *)
(***************************************************************************)
EmptyDict == [k \in {} |-> NoneDict]

Init ==
    /\ SCHEDULE_2026 = InitialSchedule
    /\ fed_speeches = <<>>
    /\ trades = <<>>
    /\ nfp_history = EmptyDict
    /\ op = "idle"
    /\ view = NoneDict
    /\ intraday = NoneDict
    /\ wrote = FALSE
    /\ exit_status = 0
    /\ out = <<>>

Next ==
    \/ \E today \in Todays : index(today)
    \/ \E today \in Todays : nfp_page(<<>>, today)
    \/ \E month \in { <<2024, 7>>, <<2025, 12>>, <<2026, 1>>, <<2026, 2>> } :
           nfp_page(month, ClockUnread)
    \/ fed_speeches_page
    \/ trades_page
    \/ \E month \in HistoryMonths, data \in UpdateRequests :
           update_nfp(month, data)
    \/ \E data \in SpeechRequests : add_fed_speech(data)
    \/ \E data \in TradeRequests : add_trade(data)
    \/ Respond

Spec == Init /\ [][Next]_vars

(***************************************************************************)
(* The window correlation as a function of the commentary log: the log is  *)
(* any list of at most MaxCorrLog entries, the table is as loaded or as    *)
(* index has left it.                                                      *)
(***************************************************************************)
\* commentary around the first two release windows: before the first
\* release, on it, inside the window after it (two speakers on one day), on
\* the second release, after it
CorrEntries ==
    { [date |-> d, official |-> "Powell", summary |-> "rates on hold",
       stance |-> "neutral", market_reaction |-> ""] :
        d \in { <<2026, 1, 8>>, <<2026, 1, 9>>, <<2026, 1, 20>>,
                <<2026, 2, 11>>, <<2026, 2, 12>> } }
    \cup
    { [date |-> <<2026, 1, 20>>, official |-> "Waller",
       summary |-> "cut soon", stance |-> "dovish",
       market_reaction |-> "USD down"] }

RECURSIVE Logs(_)
Logs(n) ==
    IF n = 0 THEN { <<>> }
    ELSE Logs(n - 1)
         \cup { Append(l, e) : l \in { x \in Logs(n - 1) : Len(x) = n - 1 },
                               e \in CorrEntries }

InitCorr ==
    /\ SCHEDULE_2026 \in
         { InitialSchedule,
           WithDaysUntil(InitialSchedule, 2,
                         [date |-> <<2026, 1, 9>>, midnight |-> FALSE]) }
    /\ fed_speeches \in Logs(MaxCorrLog)
    /\ trades = <<>>
    /\ nfp_history = EmptyDict
    /\ op = "idle"
    /\ view = NoneDict
    /\ intraday = NoneDict
    /\ wrote = FALSE
    /\ exit_status = 0
    /\ out = <<>>

NextCorr ==
    \/ \E today \in Todays : nfp_page(<<>>, today)
    \/ \E month \in PageMonths : nfp_page(month, ClockUnread)
    \/ Respond

SpecCorr == InitCorr /\ [][NextCorr]_vars

(***************************************************************************)
(* calculate_nfp_move as a function of the series: the release is on       *)
(* CalcDate at the default 13:30, the series holds any of the five         *)
(* timestamps the calculation reads, each at any price of Prices, and      *)
(* possibly the release time of the day before.                            *)
(***************************************************************************)
CalcDate == <<2026, 2, 6>>

ReleaseStamp == <<CalcDate, DefaultReleaseHour, DefaultReleaseMinute>>

\* the clock time `minutes` after the release
ClockAfterRelease(minutes) ==
    LET t == DefaultReleaseHour * 60 + DefaultReleaseMinute + minutes
    IN  <<CalcDate, t \div 60, t % 60>>

OffsetMinutes(label) ==
    CASE label = "5min_after" -> 5   [] label = "15min_after" -> 15
      [] label = "30min_after" -> 30 [] label = "1h_after" -> 60

DayBeforeStamp == << <<2026, 2, 5>>, DefaultReleaseHour, DefaultReleaseMinute>>

\* 151.0000 and prices a few ten-thousandths off it, among them one that
\* puts a product halfway between two tenths of a pip; 151.5000, 150.2000
\* and 150.5000 are moves of +50, -80 and -50 pips from 151.0000
Prices ==
    { 1510000 + 3 * k : k \in 0..MaxDev }
    \cup { 1509995, 1515000, 1502000, 1505000 }

AllSeries ==
    LET core == UNION { [S -> Prices] :
                        S \in SUBSET ({ReleaseStamp}
                                      \cup { ClockAfterRelease(OffsetMinutes(l)) :
                                             l \in OffsetLabels }) }
    IN  core \cup { c @@ (DayBeforeStamp :> 1510000) : c \in core }

\* the labels whose product lies halfway between two tenths of a pip
HalfwayLabels(intraday_data, nfp_date, release_hour, release_minute) ==
    LET times == times_to_check(nfp_date, release_hour, release_minute)
    IN  { times[k].label : k \in
            { j \in 2..Len(times) :
                /\ times[1].time_str \in DOMAIN intraday_data
                /\ times[j].time_str \in DOMAIN intraday_data
                /\ (intraday_data[times[j].time_str]
                      - intraday_data[times[1].time_str]) % 10 = 5 } }

InitMoves ==
    /\ SCHEDULE_2026 = InitialSchedule
    /\ fed_speeches = <<>>
    /\ trades = <<>>
    /\ nfp_history = EmptyDict
    /\ op = "idle"
    /\ view = NoneDict
    /\ intraday \in { [TimeSeries |-> f] : f \in AllSeries }
    /\ wrote = FALSE
    /\ exit_status = 0
    /\ out = <<>>

\* calculate_nfp_move(intraday, CalcDate)
Calculate ==
    /\ op = "idle"
    /\ \E ups \in SUBSET HalfwayLabels(intraday.TimeSeries, CalcDate,
                                      DefaultReleaseHour, DefaultReleaseMinute) :
         view' = calculate_nfp_move(intraday.TimeSeries, CalcDate,
                                    DefaultReleaseHour, DefaultReleaseMinute,
                                    ups)
    /\ op' = "calculate_nfp_move"
    /\ UNCHANGED <<SCHEDULE_2026, fed_speeches, trades, nfp_history,
                   intraday, wrote, exit_status, out>>

NextMoves == Calculate \/ Respond

SpecMoves == InitMoves /\ [][NextMoves]_vars

(***************************************************************************)
(* calculate_nfp_move as a function of the release time: any hour and      *)
(* minute of the day, on CalcDate, over a five-minute series that holds    *)
(* every clock time from the release to an hour after it.                  *)
(***************************************************************************)
ReleaseHours == 0..23
ReleaseMinutes == 0..59

\* the day after `date`, in a year of 365 days
DayAfter(date) ==
    LET length == IF date[2] = 12 THEN 31
                  ELSE DaysBefore(date[2] + 1) - DaysBefore(date[2])
    IN  IF date[3] < length THEN <<date[1], date[2], date[3] + 1>>
        ELSE IF date[2] < 12 THEN <<date[1], date[2] + 1, 1>>
        ELSE <<date[1] + 1, 1, 1>>

\* the clock timestamp `minutes` (less than a day) after hour:minute of date
ClockPlus(date, hour, minute, minutes) ==
    LET t == hour * 60 + minute + minutes
    IN  IF t < 24 * 60 THEN <<date, t \div 60, t % 60>>
        ELSE <<DayAfter(date), (t - 24 * 60) \div 60, t % 60>>

\* release times whose feed is on hand: the default, one whose +15 min
\* passes the hour, one whose +5 min does, and one whose +30 min passes
\* midnight
FedReleaseTimes == { <<13, 30>>, <<13, 50>>, <<13, 55>>, <<23, 30>> }

\* the feed around a release: a bar every five minutes from the release to
\* an hour after it, rising 0.0100 a bar from 151.0000
SeriesAround(hour, minute) ==
    LET stamps == { ClockPlus(CalcDate, hour, minute, 5 * k) : k \in 0..12 }
        bar(stamp) == CHOOSE k \in 0..12 :
                         stamp = ClockPlus(CalcDate, hour, minute, 5 * k)
    IN  [stamp \in stamps |-> 1510000 + 100 * bar(stamp)]

InitTimes ==
    /\ SCHEDULE_2026 = InitialSchedule
    /\ fed_speeches = <<>>
    /\ trades = <<>>
    /\ nfp_history = EmptyDict
    /\ op = "idle"
    /\ view = NoneDict
    /\ intraday \in { [TimeSeries |-> SeriesAround(t[1], t[2])] :
                        t \in FedReleaseTimes }
    /\ wrote = FALSE
    /\ exit_status = 0
    /\ out = <<>>

\* calculate_nfp_move(intraday, CalcDate, release_hour, release_minute);
\* the answer is kept with the arguments and the timestamps it looked up
CalculateAt(release_hour, release_minute) ==
    /\ op = "idle"
    /\ \E ups \in SUBSET HalfwayLabels(intraday.TimeSeries, CalcDate,
                                      release_hour, release_minute) :
         view' = [nfp_date       |-> CalcDate,
                  release_hour   |-> release_hour,
                  release_minute |-> release_minute,
                  times_to_check |-> times_to_check(CalcDate, release_hour,
                                                    release_minute),
                  ret |-> calculate_nfp_move(intraday.TimeSeries, CalcDate,
                                             release_hour, release_minute,
                                             ups)]
    /\ op' = "calculate_nfp_move"
    /\ UNCHANGED <<SCHEDULE_2026, fed_speeches, trades, nfp_history,
                   intraday, wrote, exit_status, out>>

NextTimes ==
    \/ \E release_hour \in ReleaseHours, release_minute \in ReleaseMinutes :
           CalculateAt(release_hour, release_minute)
    \/ Respond

SpecTimes == InitTimes /\ [][NextTimes]_vars

(***************************************************************************)
(* The price-move tool: its command line and add_manual_price_moves, from  *)
(* any store the dashboard and earlier runs of the tool can have left.     *)
(***************************************************************************)
\* a record as update_nfp stores it
StoredRecord ==
    [forecast |-> "70K", actual |-> "130K", prev |-> "50K",
     market_reaction |-> "USD up", notes |-> "strong"]

\* a result attached earlier, with every offset and max_move
EarlierMoves ==
    [release_price |-> 1490000,
     moves |-> << [label |-> "5min_after", price |-> 1491000, pips |-> 100],
                  [label |-> "15min_after", price |-> 1492000, pips |-> 200],
                  [label |-> "30min_after", price |-> 1489000, pips |-> -100],
                  [label |-> "1h_after", price |-> 1493000, pips |-> 300] >>,
     max_move |-> 300]

\* 2024-08 and 2025-01 are among the sample results; releases on
\* 2025-02-07 and 2026-01-09 report on 2025-01 and 2025-12
ToolMonths == { <<2024, 8>>, <<2025, 1>>, <<2025, 12>> }

InitialHistories ==
    UNION { [S -> { StoredRecord,
                    put(StoredRecord, "price_moves", EarlierMoves) }] :
            S \in SUBSET ToolMonths }

\* release dates given to `fetch`; 2026-03-06 reports on 2026-02, a month
\* no store holds
FetchDates == { <<2025, 2, 7>>, <<2026, 1, 9>>, <<2026, 3, 6>> }

\* the series the feed answers for a release date: none of the timestamps,
\* an offset without the release, the release alone, the release with two
\* offsets, the release with an offset at a halfway product
FeedSeries(nfp_date) ==
    LET at(h, m) == <<nfp_date, h, m>>
    IN  { [k \in {} |-> 0],
          (at(13, 35) :> 1515000),
          (at(13, 30) :> 1510000),
          (at(13, 30) :> 1510000) @@ (at(13, 35) :> 1515000)
              @@ (at(14, 0) :> 1502000),
          (at(13, 30) :> 1510000) @@ (at(13, 45) :> 1510005) }

Responses(nfp_date) ==
    { [raises |-> TRUE],
      [raises |-> FALSE, data |-> [Note |-> "rate limit"]] }
    \cup { [raises |-> FALSE, data |-> [TimeSeries |-> f]] :
           f \in FeedSeries(nfp_date) }

\* command lines without a release date
OtherCommandLines ==
    { <<>>, <<"populate">>, <<"fetch">>, <<"add", <<2025, 12>>>>,
      <<"add", <<2025, 12>>, "146.50">>, <<"add", <<2025, 12>>, "abc">>,
      <<"report">> }

\* arguments of add_manual_price_moves; 2024-09 is a month no store holds
ManualMoves ==
    { <<>>,
      << [label |-> "5min_after", price |-> 1458000, pips |-> -700],
         [label |-> "30min_after", price |-> 1472000, pips |-> 700] >> }

InitFetch ==
    /\ SCHEDULE_2026 = InitialSchedule
    /\ fed_speeches = <<>>
    /\ trades = <<>>
    /\ nfp_history \in InitialHistories
    /\ op = "idle"
    /\ view = NoneDict
    /\ intraday = NoneDict
    /\ wrote = FALSE
    /\ exit_status = 0
    /\ out = <<>>

NextFetch ==
    \/ \E argv \in OtherCommandLines : main(argv, [raises |-> TRUE], {})
    \/ \E nfp_date \in FetchDates :
         \E response \in Responses(nfp_date) :
           \E ups \in SUBSET
                  (IF not_intraday(get_usdjpy_intraday(response)) THEN {}
                   ELSE HalfwayLabels(response.data.TimeSeries, nfp_date,
                                      DefaultReleaseHour,
                                      DefaultReleaseMinute)) :
             main(<<"fetch", nfp_date>>, response, ups)
    \/ \E month \in { <<2025, 12>>, <<2024, 9>> },
          moves_data \in ManualMoves :
           add_manual_price_moves(month, 1465000, moves_data)
    \/ Respond

SpecFetch == InitFetch /\ [][NextFetch]_vars

(***************************************************************************)
(* The release history under both of its writers: POST /api/nfp/<month>    *)
(* of the dashboard, and the attachments of the price-move tool.           *)
(***************************************************************************)
\* months posted to /api/nfp/<month>; 2024-09 is a month no store holds
StoreMonths == HistoryMonths \cup { <<2024, 9>> }

\* the feed answer with the release and two offsets
FullResponse(nfp_date) ==
    [raises |-> FALSE,
     data |-> [TimeSeries |->
                 (<<nfp_date, 13, 30>> :> 1510000)
                 @@ (<<nfp_date, 13, 35>> :> 1515000)
                 @@ (<<nfp_date, 14, 0>> :> 1502000)]]

InitStore ==
    /\ SCHEDULE_2026 = InitialSchedule
    /\ fed_speeches = <<>>
    /\ trades = <<>>
    /\ nfp_history \in { h \in InitialHistories :
                            DOMAIN h \subseteq HistoryMonths }
    /\ op = "idle"
    /\ view = NoneDict
    /\ intraday = NoneDict
    /\ wrote = FALSE
    /\ exit_status = 0
    /\ out = <<>>

NextStore ==
    \/ \E month \in StoreMonths, data \in UpdateRequests :
           update_nfp(month, data)
    \/ \E month \in StoreMonths, moves_data \in ManualMoves :
           add_manual_price_moves(month, 1465000, moves_data)
    \/ \E nfp_date \in { <<2025, 2, 7>>, <<2026, 1, 9>> } :
           main(<<"fetch", nfp_date>>, FullResponse(nfp_date), {})
    \/ Respond

SpecStore == InitStore /\ [][NextStore]_vars

(***************************************************************************)
(* Claims on the window correlation (SpecCorr).                            *)
(***************************************************************************)
\* the positions of the log dated within [lo, hi] on the calendar
WindowPositions(lo, hi) ==
    { k \in DOMAIN fed_speeches :
        /\ strptime(lo) <= strptime(fed_speeches[k].date)
        /\ strptime(fed_speeches[k].date) <= strptime(hi) }

\* C1: when the page is shown for the month of the schedule entry at a
\* position after the first, its related speeches are exactly the entries of
\* the log dated from the previous release date to this release date, both
\* included, each once and in the order of the log.
C1_WindowIsExactSubsequence ==
    \A i \in 2..Len(SCHEDULE_2026.nfp) :
        (op = "nfp_page" /\ view.month = SCHEDULE_2026.nfp[i].month) =>
            LET idx == WindowPositions(SCHEDULE_2026.nfp[i - 1].date,
                                       SCHEDULE_2026.nfp[i].date)
            IN  /\ Len(view.speeches) = Cardinality(idx)
                /\ \A k \in idx :
                     view.speeches[Cardinality({m \in idx : m <= k})]
                         = fed_speeches[k]

\* a log of three, the first entry dated before the window, the second on
\* its last day, the third on its first day: the last two are related
C1_Witness ==
    /\ op = "nfp_page"
    /\ view.month = <<2026, 1>>
    /\ Len(fed_speeches) = 3
    /\ fed_speeches[1].date = <<2026, 1, 8>>
    /\ fed_speeches[2].date = <<2026, 2, 11>>
    /\ fed_speeches[3].date = <<2026, 1, 9>>
    /\ view.speeches = <<fed_speeches[2], fed_speeches[3]>>

\* C2: the page shown for the month of the first schedule entry, or for a
\* month of no schedule entry, has no related speeches, whatever the log.
C2_NoPrecedingWindowIsEmpty ==
    (/\ op = "nfp_page"
     /\ \/ view.month = SCHEDULE_2026.nfp[1].month
        \/ \A i \in DOMAIN SCHEDULE_2026.nfp :
               view.month # SCHEDULE_2026.nfp[i].month)
    => view.speeches = <<>>

\* the first month of the schedule, with a log holding an entry dated on
\* that month's release day
C2_Witness ==
    /\ op = "nfp_page"
    /\ view.month = <<2025, 12>>
    /\ view.schedule = SCHEDULE_2026.nfp[1]
    /\ \E k \in DOMAIN fed_speeches : fed_speeches[k].date = <<2026, 1, 9>>
    /\ view.speeches = <<>>

(***************************************************************************)
(* Claims on the dashboard (Spec).                                         *)
(***************************************************************************)
\* C10: the schedule table always equals the table loaded at process start
\* and the dates of each event type are strictly increasing.
C10_ScheduleImmutable ==
    /\ SCHEDULE_2026 = InitialSchedule
    /\ \A t \in DOMAIN SCHEDULE_2026 :
         \A i, j \in DOMAIN SCHEDULE_2026[t] :
             i < j => strptime(SCHEDULE_2026[t][i].date)
                        < strptime(SCHEDULE_2026[t][j].date)

\* a is an initial segment of b
IsPrefix(a, b) == Len(a) <= Len(b) /\ SubSeq(b, 1, Len(a)) = a

Series == intraday.TimeSeries

\* the clock time an offset label stands for
Target(label) == ClockAfterRelease(OffsetMinutes(label))

OffsetRank(label) ==
    CASE label = "5min_after" -> 1   [] label = "15min_after" -> 2
      [] label = "30min_after" -> 3  [] label = "1h_after" -> 4

\* C4: when some offset resolved, max_move is the pips of a resolved move
\* of greatest absolute pips, the first such move in the declared order of
\* the offsets, with that move's sign.
C4_MaxMoveIsFirstLargest ==
    (op = "calculate_nfp_move" /\ view # NoneDict /\ view.moves # <<>>) =>
        /\ "max_move" \in DOMAIN view
        /\ \A j, k \in DOMAIN view.moves :
             j < k => OffsetRank(view.moves[j].label)
                        < OffsetRank(view.moves[k].label)
        /\ \E k \in DOMAIN view.moves :
             /\ view.max_move = view.moves[k].pips
             /\ \A j \in DOMAIN view.moves :
                  /\ abs(view.moves[j].pips) <= abs(view.moves[k].pips)
                  /\ j < k => abs(view.moves[j].pips) < abs(view.moves[k].pips)

\* -50 pips after 5 minutes, +50 pips after 30 minutes, less in between:
\* the earlier of the two largest moves is the maximum
C4_Witness ==
    /\ op = "calculate_nfp_move"
    /\ view # NoneDict
    /\ Len(view.moves) = 3
    /\ view.moves[1].pips = -500
    /\ view.moves[3].pips = 500
    /\ abs(view.moves[2].pips) < 500
    /\ view.max_move = -500

\* what C7 states of the result apart from the pips
C7_ResultShape ==
    /\ view # NoneDict
    /\ view.release_price = Series[ReleaseStamp]
    /\ { view.moves[k].label : k \in DOMAIN view.moves }
         = { l \in OffsetLabels : Target(l) \in DOMAIN Series }
    /\ Len(view.moves)
         = Cardinality({ l \in OffsetLabels : Target(l) \in DOMAIN Series })
    /\ \A k \in DOMAIN view.moves :
         view.moves[k].price = Series[Target(view.moves[k].label)]

\* C7 (as amended): with the release timestamp in the series, the result
\* holds the price at the release timestamp, a move for exactly the offsets
\* whose timestamp is in the series, and for each move pips is
\* (price at the offset - release_price) x 100 rounded to a nearest tenth.
C7_MovesRoundedToTenth ==
    (op = "calculate_nfp_move" /\ ReleaseStamp \in DOMAIN Series) =>
        /\ C7_ResultShape
        /\ \A k \in DOMAIN view.moves :
             abs(10 * view.moves[k].pips
                   - (view.moves[k].price - view.release_price)) <= 5

\* C7 (as stated): the same, with pips equal to
\* (price at the offset - release_price) x 100.
C7_MovesExact ==
    (op = "calculate_nfp_move" /\ ReleaseStamp \in DOMAIN Series) =>
        /\ C7_ResultShape
        /\ \A k \in DOMAIN view.moves :
             10 * view.moves[k].pips
                 = view.moves[k].price - view.release_price

\* the example of the claim: release 151.00, 151.50 five minutes later,
\* 150.20 thirty minutes later, nothing at the other two offsets
C7_Witness ==
    /\ op = "calculate_nfp_move"
    /\ DOMAIN Series = { ReleaseStamp, Target("5min_after"),
                         Target("30min_after") }
    /\ Series[ReleaseStamp] = 1510000
    /\ Series[Target("5min_after")] = 1515000
    /\ Series[Target("30min_after")] = 1502000
    /\ view = [release_price |-> 1510000,
               moves |-> << [label |-> "5min_after", price |-> 1515000,
                             pips |-> 500],
                            [label |-> "30min_after", price |-> 1502000,
                             pips |-> -800] >>,
               max_move |-> -800]

(***************************************************************************)
(* Claims on the price-move tool (SpecFetch).  In a step of an operation   *)
(* the unprimed store is the store before the call, the primed one the     *)
(* store after it.                                                         *)
(***************************************************************************)
\* the month before the month of a release date
ReportedMonth(nfp_date) ==
    LET n == nfp_date[1] * 12 + nfp_date[2] - 2
    IN  <<n \div 12, (n % 12) + 1>>

\* the step is a run of `fetch` that computed a result for a release date
\* reporting on month m
FetchComputedFor(m) ==
    /\ op' = "main: fetch"
    /\ view'.moves # NoneDict
    /\ ReportedMonth(view'.nfp_date) = m

\* the step is a call of add_manual_price_moves for month m
ManualFor(m) ==
    /\ op' = "add_manual_price_moves"
    /\ view'.month = m

\* the step reports failure and neither changes nor writes the store
FailsUntouched ==
    /\ view'.ret = "False"
    /\ nfp_history' = nfp_history
    /\ ~wrote'

\* C5: attaching price moves to a month that is no key of the store, by
\* update_nfp_with_moves or by add_manual_price_moves, returns False and
\* leaves the store as it was, unwritten.
C5_AttachToMissingMonthFails ==
    [][ \A m \in { <<2024, 9>>, <<2026, 2>> } \cup ToolMonths :
          ((FetchComputedFor(m) \/ ManualFor(m)) /\ m \notin DOMAIN nfp_history)
              => FailsUntouched ]_vars

\* a result computed for 2026-02, which the store, holding other months,
\* does not hold
C5_Witness ==
    /\ op = "main: fetch"
    /\ view.nfp_date = <<2026, 3, 6>>
    /\ view.moves # NoneDict
    /\ view.ret = "False"
    /\ DOMAIN nfp_history = ToolMonths

\* the record of month m has its price_moves replaced by `new`, nothing
\* else of it changed
Replaced(m, new) ==
    /\ DOMAIN nfp_history'[m] = DOMAIN nfp_history[m] \cup { "price_moves" }
    /\ nfp_history'[m].price_moves = new
    /\ \A f \in DOMAIN nfp_history[m] \ { "price_moves" } :
         nfp_history'[m][f] = nfp_history[m][f]

\* the months of the sample results that are keys of the store
SampleMonthsHeld ==
    { HISTORICAL_MOVES[i].month : i \in DOMAIN HISTORICAL_MOVES }
        \cap DOMAIN nfp_history

\* C6: attaching price moves to a month that is a key of the store replaces
\* the price_moves of that record by the new result as a whole, reports
\* success, and changes no other field, no other record and no key;
\* populate_historical_moves does so for each sample month the store holds.
C6_AttachReplacesWholesale ==
    [][ /\ \A m \in DOMAIN nfp_history :
             (FetchComputedFor(m) \/ ManualFor(m)) =>
                 /\ view'.ret = "True"
                 /\ DOMAIN nfp_history' = DOMAIN nfp_history
                 /\ Replaced(m, view'.moves)
                 /\ \A o \in DOMAIN nfp_history \ { m } :
                      nfp_history'[o] = nfp_history[o]
        /\ op' = "main: populate" =>
             /\ DOMAIN nfp_history' = DOMAIN nfp_history
             /\ \A i \in DOMAIN HISTORICAL_MOVES :
                  HISTORICAL_MOVES[i].month \in DOMAIN nfp_history =>
                      Replaced(HISTORICAL_MOVES[i].month,
                               HISTORICAL_MOVES[i].value)
             /\ \A o \in DOMAIN nfp_history \ SampleMonthsHeld :
                  nfp_history'[o] = nfp_history[o]
             /\ Len(out') = Cardinality(SampleMonthsHeld) + 1
      ]_vars

\* a fetched result without max_move is what the record of 2025-12 holds,
\* next to the untouched record of 2025-01 with its earlier result
C6_Witness ==
    /\ op = "main: fetch"
    /\ view.ret = "True"
    /\ view.nfp_date = <<2026, 1, 9>>
    /\ "max_move" \notin DOMAIN view.moves
    /\ DOMAIN nfp_history = { <<2025, 1>>, <<2025, 12>> }
    /\ nfp_history[<<2025, 12>>] =
         put(StoredRecord, "price_moves", view.moves)
    /\ nfp_history[<<2025, 1>>] =
         put(StoredRecord, "price_moves", EarlierMoves)

\* C8: when the feed gives no usable series, or a series without the exact
\* release timestamp, update_nfp_with_moves returns False and the store is
\* as before the call, unwritten.
C8_FeedFailureLeavesStore ==
    [][ (/\ op' = "main: fetch"
         /\ \/ intraday' = NoneDict
            \/ <<view'.nfp_date, 13, 30>> \notin DOMAIN intraday'.TimeSeries)
        => FailsUntouched ]_vars

\* a series with an offset but not the release, for a month the store holds
C8_Witness ==
    /\ op = "main: fetch"
    /\ intraday # NoneDict
    /\ DOMAIN intraday.TimeSeries = { <<view.nfp_date, 13, 35>> }
    /\ ReportedMonth(view.nfp_date) \in DOMAIN nfp_history
    /\ view.ret = "False"
    /\ ~wrote

\* C9: the exit status of a run is the success status exactly when the
\* command succeeded: `fetch` when update_nfp_with_moves returned True,
\* `populate` always, `add` unless the price is no number, an unknown
\* command never.
C9_ExitStatusReflectsSuccess ==
    /\ op = "main: fetch" => (exit_status = 0 <=> view.ret = "True")
    /\ op = "main: populate" => exit_status = 0
    /\ op = "main: add" => (exit_status = 0 <=> out # <<"ValueError">>)
    /\ op = "main: unknown command" => exit_status # 0

(***************************************************************************)
(* Claims on the timestamps of calculate_nfp_move (SpecTimes).             *)
(***************************************************************************)
\* C12: for every release time, the timestamp looked up for each offset
\* label is the clock timestamp that lies the offset's duration after the
\* release timestamp (5, 15, 30 and 60 minutes), minutes past the hour
\* carried into the hour and hours past midnight into the next day; and a
\* feed holding all those timestamps gives a move for every offset.
C12_OffsetTimestampsAreClockTimes ==
    op = "calculate_nfp_move" /\ "times_to_check" \in DOMAIN view =>
        /\ \A k \in DOMAIN view.times_to_check :
             LET t == view.times_to_check[k]
             IN  t.label \in OffsetLabels =>
                   /\ t.time_str[2] \in 0..23
                   /\ t.time_str[3] \in 0..59
                   /\ t.time_str = ClockPlus(view.nfp_date, view.release_hour,
                                             view.release_minute,
                                             OffsetMinutes(t.label))
        /\ intraday.TimeSeries
             = SeriesAround(view.release_hour, view.release_minute) =>
               { view.ret.moves[k].label : k \in DOMAIN view.ret.moves }
                 = OffsetLabels

(***************************************************************************)
(* Claims on the release history under both writers (SpecStore).           *)
(***************************************************************************)
RecordFields == { "forecast", "actual", "prev", "market_reaction", "notes" }

\* the record a request body stands for: the five fields, an absent one
\* null, absent notes empty
RecordOf(data) ==
    [f \in RecordFields |->
        IF f \in DOMAIN data THEN data[f]
        ELSE IF f = "notes" THEN "" ELSE "None"]

\* C13: update_nfp(month, data) creates the record of month if absent and
\* otherwise overwrites it whole: afterwards the record has exactly the
\* fields forecast, actual, prev, market_reaction and notes, each as the
\* request gives it (null if absent, notes empty if absent), so that an
\* attached price_moves is gone; the records of all other months are as
\* before; the store is written.
C13_UpdateOverwritesWholeRecord ==
    [][ op' = "update_nfp" =>
          \E month \in StoreMonths, data \in UpdateRequests :
              /\ DOMAIN nfp_history' = DOMAIN nfp_history \cup {month}
              /\ DOMAIN nfp_history'[month] = RecordFields
              /\ nfp_history'[month] = RecordOf(data)
              /\ \A m \in DOMAIN nfp_history \ {month} :
                     nfp_history'[m] = nfp_history[m]
              /\ wrote' ]_vars

\* update_nfp has just answered for 2025-01 (2025-12 carries the result
\* fetched for 2026-01-09 and 2024-09 was never posted): the record of
\* 2025-01 is the request's actual and nothing else
C13_Witness ==
    /\ op = "update_nfp"
    /\ DOMAIN nfp_history = HistoryMonths
    /\ "price_moves" \in DOMAIN nfp_history[<<2025, 12>>]
    /\ nfp_history[<<2025, 12>>].price_moves.release_price = 1510000
    /\ nfp_history[<<2025, 1>>] = RecordOf([actual |-> "-20K"])

====
